---- MODULE Spec2Model ----
(***************************************************************************)
(* Model of bot.py: a Telegram bot that registers every user who sends     *)
(* /start and lets an operator compose a broadcast (text, optional photo   *)
(* or video) through a ConversationHandler and fan it out to the registry. *)
(*                                                                         *)
(* Updates reach the dispatcher through the Flask webhook, one request     *)
(* thread per POST, and nothing serialises the threads: handlers of        *)
(* different users and handlers of the same user run side by side, and a   *)
(* thread can be switched out between any two statements.  A handler call  *)
(* is a frame in `threads`, and a step of a thread is one access to the    *)
(* shared state (conversations, user_data, users) together with the local  *)
(* statements and the calls of the Telegram API up to the next access:     *)
(* the dispatcher's choice of the handler (check_update, which reads the   *)
(* conversation state), each read and each write of user_data, users.add,  *)
(* the calls of the set iterator, and the storing of the state a handler   *)
(* returns, whatever the state is by then.  A call of the Telegram API     *)
(* returns or raises; when it raises outside a try, the handler is left by *)
(* the exception, the dispatcher logs it and the conversation state is not *)
(* updated.  Every chat is a private chat, so a conversation key is the    *)
(* user's id.                                                              *)
(***************************************************************************)
EXTENDS Integers, Sequences, FiniteSets, Bags, TLC

VARIABLES admin_store,    \* content of admins.json
          booted,         \* "init" before load_admins ran, then "up" or "crashed"
          ADMIN_IDS,      \* the list load_admins returned
          users,          \* the registry, a Python set
          conversations,  \* ConversationHandler.conversations: key -> state
          user_data,      \* dispatcher.user_data: user id -> dict
          threads,        \* frames of the handler calls in progress, a bag
          received,       \* number of POSTs the webhook has received
          last            \* what the last step put out

vars == <<admin_store, booted, ADMIN_IDS, users, conversations, user_data, threads, received, last>>

(* Number of POSTs the webhook receives in a run *)
MaxUpdates == 6

(* Number of handler calls in progress at the same time *)
MaxInFlight == 2

-----------------------------------------------------------------------------
(* Input domains *)

UserIds == {1, 2}
StoredAdmins == <<1>>
Texts == {"Hello", "Promo"}
PhotoIds == {"ph1"}
VideoIds == {"vd1"}
DocumentIds == {"doc1"}
CallbackData == {"broadcast", "add_photo", "add_video", "send_now", "other"}

(* Conversation states, bot.py line 68, and ConversationHandler.END *)
CHOOSING == 0
TYPING_TEXT == 1
WAITING_MEDIA == 2
BROADCAST == 3
END == -1

(* Inbound updates: a message (command, text, photo, video, other          *)
(* attachment) or a callback query carrying the pressed button's data.     *)
Updates ==
    [kind : {"command"}, data : {"start", "cancel"}]
    \cup [kind : {"text"}, data : Texts]
    \cup [kind : {"photo"}, data : PhotoIds]
    \cup [kind : {"video"}, data : VideoIds]
    \cup [kind : {"document"}, data : DocumentIds]
    \cup [kind : {"callback"}, data : CallbackData]

-----------------------------------------------------------------------------
(* Python dicts as functions on the set of keys present *)

EmptyDict == [k \in {} |-> ""]

Put(d, key, value) ==
    [k \in DOMAIN d \cup {key} |-> IF k = key THEN value ELSE d[k]]

Get(d, key, default) == IF key \in DOMAIN d THEN d[key] ELSE default

Has(d, key) == key \in DOMAIN d

(* `x in ADMIN_IDS` on the loaded list *)
InList(x, list) == \E i \in 1..Len(list) : list[i] = x

(* Python's None where a string is expected *)
None == "None"

-----------------------------------------------------------------------------
(* Admin Directory: load_admins, run once at import *)

StoreConditions == {"absent", "unreadable", "corrupt", "valid"}

load_admins(store) ==
    CASE store = "valid" -> [raised |-> FALSE, result |-> StoredAdmins, store |-> "valid"]
      [] store \in {"absent", "corrupt"} ->
             [raised |-> FALSE, result |-> <<>>, store |-> "empty_list"]
      [] OTHER -> [raised |-> TRUE, result |-> <<>>, store |-> store]

-----------------------------------------------------------------------------
(* Dispatch: Dispatcher.process_update offers the update to the handlers   *)
(* of group 0 in the order setup_handlers added them, and the first one    *)
(* whose check_update accepts it handles it.                               *)

IsCommand(upd, name) == upd.kind = "command" /\ upd.data = name

(* entry_points: CallbackQueryHandler(button_callback, pattern="^broadcast$") *)
EntryHandler(upd) ==
    IF upd.kind = "callback" /\ upd.data = "broadcast" THEN "button_callback" ELSE "none"

(* states: the handlers of the conversation's current state, in order *)
StateHandler(state, upd) ==
    CASE state = TYPING_TEXT ->
             IF upd.kind = "text" THEN "text_input" ELSE "none"
      [] state = WAITING_MEDIA ->
             IF upd.kind = "callback" THEN "media_choice" ELSE "none"
      [] state = BROADCAST ->
             IF upd.kind \in {"photo", "video"} THEN "receive_media"
             ELSE IF upd.kind = "callback" /\ upd.data = "send_now" THEN "broadcast_message"
             ELSE "none"
      [] OTHER -> "none"

(* fallbacks: CommandHandler("cancel", cancel) *)
FallbackHandler(upd) == IF IsCommand(upd, "cancel") THEN "cancel" ELSE "none"

(* ConversationHandler.check_update: without a conversation only the entry *)
(* points are tried; within one the state's handlers, then the fallbacks   *)
(* (allow_reentry is off).                                                 *)
ConvHandler(convs, key, upd) ==
    IF key \notin DOMAIN convs THEN EntryHandler(upd)
    ELSE IF StateHandler(convs[key], upd) # "none" THEN StateHandler(convs[key], upd)
    ELSE FallbackHandler(upd)

HandlerFor(convs, key, upd) ==
    IF IsCommand(upd, "start") THEN "start" ELSE ConvHandler(convs, key, upd)

(* The state of a conversation, END when the key has none *)
StateOf(convs, key) == IF key \in DOMAIN convs THEN convs[key] ELSE END

(* ConversationHandler._update_state: END deletes the key, any other       *)
(* state is stored.                                                        *)
UpdateState(convs, key, new_state) ==
    IF new_state = END
    THEN [k \in DOMAIN convs \ {key} |-> convs[k]]
    ELSE [k \in DOMAIN convs \cup {key} |-> IF k = key THEN new_state ELSE convs[k]]

-----------------------------------------------------------------------------
(* Frames of handler calls *)

(* The frame of a handler chosen for update upd of user u: pc is the       *)
(* statement the thread is at ("entered": before the handler's first       *)
(* statement; "welcome", "menu", "reply", "answer", "notice", "send",      *)
(* "report": blocked in that call of the Telegram API; the others are      *)
(* named at the actions); the rest are the locals of broadcast_message,    *)
(* current being the recipient the iterator yielded last; draft,           *)
(* snapshot and trace record context.user_data as it was when              *)
(* broadcast_message was entered, the registry as it was when the iterator *)
(* was created, and the calls made so far.                                 *)
Frame(u, handler, pc, upd) ==
    [user |-> u, handler |-> handler, pc |-> pc, update |-> upd,
     draft |-> EmptyDict, text |-> "", media_type |-> None, media |-> None,
     successful |-> 0, failed |-> 0, it_used |-> 0, pending |-> {},
     current |-> 0, snapshot |-> {}, trace |-> <<>>]

Event(ev, to, prim, ref, caption, ok) ==
    [ev |-> ev, to |-> to, prim |-> prim, ref |-> ref, caption |-> caption, ok |-> ok]

StartedEvent == Event("started", 0, "", "", "", TRUE)

(* lines 233-238: the send primitive chosen by media_type *)
Primitive(media_type) ==
    IF media_type = "photo" THEN "send_photo"
    ELSE IF media_type = "video" THEN "send_video"
    ELSE "send_message"

(* line 231: the iterator yields recipient r and the thread blocks in the  *)
(* send of lines 233-238                                                   *)
TakeNext(f, r) ==
    [f EXCEPT !.pc = "send", !.current = r, !.pending = @ \ {r}]

(* Deliver with the except branch not counting the failure *)
Deliver_FailureNotCounted(f, r, ok) ==
    [f EXCEPT !.pc = "loop",
              !.current = 0,
              !.successful = IF ok THEN @ + 1 ELSE @,
              !.trace = Append(@, Event("send", r, Primitive(f.media_type),
                                        IF Primitive(f.media_type) = "send_message"
                                        THEN "" ELSE f.media,
                                        f.text, ok))]

(* Deliver with the try around the whole loop: a failure ends the fan-out *)
Deliver_StopAfterFailure(f, r, ok) ==
    [f EXCEPT !.pc = "loop",
              !.current = 0,
              !.pending = IF ok THEN @ ELSE {},
              !.successful = IF ok THEN @ + 1 ELSE @,
              !.failed = IF ok THEN @ ELSE @ + 1,
              !.trace = Append(@, Event("send", r, Primitive(f.media_type),
                                        IF Primitive(f.media_type) = "send_message"
                                        THEN "" ELSE f.media,
                                        f.text, ok))]

(* lines 233-242: the send to recipient r returned or raised, and is       *)
(* counted                                                                 *)
Deliver(f, r, ok) ==
    [f EXCEPT !.pc = "loop",
              !.current = 0,
              !.successful = IF ok THEN @ + 1 ELSE @,
              !.failed = IF ok THEN @ ELSE @ + 1,
              !.trace = Append(@, Event("send", r, Primitive(f.media_type),
                                        IF Primitive(f.media_type) = "send_message"
                                        THEN "" ELSE f.media,
                                        f.text, ok))]

(* line 216: text = context.user_data.get("broadcast_text", "") *)
ReadText(f, data) ==
    [f EXCEPT !.pc = "read_type", !.draft = data,
              !.text = Get(data, "broadcast_text", "")]

(* line 217: media_type = context.user_data.get("media_type", None) *)
ReadKind(f, data) ==
    [f EXCEPT !.pc = "read_media", !.media_type = Get(data, "media_type", None)]

(* line 218: media = context.user_data.get("media", None); the thread then *)
(* blocks in the starting notice of lines 223-228.                         *)
ReadMedia(f, data) ==
    [f EXCEPT !.pc = "notice", !.media = Get(data, "media", None)]

(* lines 226-231: the starting notice has been sent, iter(users) *)
StartLoop(f, registry) ==
    [f EXCEPT !.pc = "loop",
              !.it_used = Cardinality(registry),
              !.pending = registry,
              !.snapshot = registry,
              !.trace = <<StartedEvent>>]

Reply(msg, successful, failed) == [msg |-> msg, successful |-> successful, failed |-> failed]

NoReply == Reply("", 0, 0)

(* What a step puts out: the answer of the webhook to the POST ("" when   *)
(* the step returns none) and the message that reached the user.           *)
Step(http, reply) == [http |-> http, reply |-> reply]

(* The frames in progress, and the bag with one of them added, replaced or *)
(* removed                                                                 *)
Frames == BagToSet(threads)

Fork(f) == threads (+) SetToBag({f})

Drop(f) == threads (-) SetToBag({f})

Replace(f, g) == (threads (-) SetToBag({f})) (+) SetToBag({g})

(* The webhook receives a POST: Flask serves it on a thread of its own *)
Ready == booted = "up" /\ received < MaxUpdates

CanFork == BagCardinality(threads) < MaxInFlight

-----------------------------------------------------------------------------
Init ==
    /\ admin_store \in StoreConditions
    /\ booted = "init"
    /\ ADMIN_IDS = <<>>
    /\ users = {}
    /\ conversations = [k \in {} |-> END]
    /\ user_data = [u \in UserIds |-> EmptyDict]
    /\ threads = EmptyBag
    /\ received = 0
    /\ last = Step("", NoReply)

(* lines 83-84: ADMIN_IDS = load_admins() *)
LoadAdmins ==
    /\ booted = "init"
    /\ LET r == load_admins(admin_store) IN
       /\ booted' = IF r.raised THEN "crashed" ELSE "up"
       /\ ADMIN_IDS' = r.result
       /\ admin_store' = r.store
    /\ last' = Step("", NoReply)
    /\ UNCHANGED <<users, conversations, user_data, threads>>
    /\ UNCHANGED received

(* webhook, lines 273-274: request.get_json(force=True) raises BadRequest  *)
(* on a body that is not JSON, and Flask answers the POST with status 400  *)
(* before the dispatcher is reached.                                       *)
WebhookBadRequest ==
    /\ Ready
    /\ received' = received + 1
    /\ last' = Step("400 Bad Request", NoReply)
    /\ UNCHANGED <<admin_store, booted, ADMIN_IDS, users, conversations, user_data, threads>>

(* start with the registry rebound instead of added to *)
Start_Replace(u, upd) ==
    /\ Ready
    /\ CanFork
    /\ HandlerFor(conversations, u, upd) = "start"
    /\ users' = {u}
    /\ threads' = Fork(Frame(u, "start", "welcome", upd))
    /\ last' = Step("", NoReply)
    /\ UNCHANGED <<admin_store, booted, ADMIN_IDS, conversations, user_data>>
    /\ received' = received + 1

(* start with users.add moved under the admin test *)
Start_AdminsOnly(u, upd) ==
    /\ Ready
    /\ CanFork
    /\ HandlerFor(conversations, u, upd) = "start"
    /\ users' = IF InList(u, ADMIN_IDS) THEN users \cup {u} ELSE users
    /\ threads' = Fork(Frame(u, "start", "welcome", upd))
    /\ last' = Step("", NoReply)
    /\ UNCHANGED <<admin_store, booted, ADMIN_IDS, conversations, user_data>>
    /\ received' = received + 1

(* start, lines 86-98: /start is given to start (line 291), users.add, and *)
(* the thread blocks in the welcome.                                       *)
Start(u, upd) ==
    /\ Ready
    /\ CanFork
    /\ HandlerFor(conversations, u, upd) = "start"
    /\ users' = users \cup {u}
    /\ threads' = Fork(Frame(u, "start", "welcome", upd))
    /\ last' = Step("", NoReply)
    /\ UNCHANGED <<admin_store, booted, ADMIN_IDS, conversations, user_data>>
    /\ received' = received + 1

(* start, lines 98-102: the welcome returned; an admin's thread blocks in  *)
(* the menu of send_admin_menu, anyone else's returns.                     *)
start_welcome(f) ==
    /\ f \in Frames
    /\ f.handler = "start"
    /\ f.pc = "welcome"
    /\ IF InList(f.user, ADMIN_IDS)
       THEN /\ threads' = Replace(f, [f EXCEPT !.pc = "menu"])
            /\ last' = Step("", Reply("welcome", 0, 0))
       ELSE /\ threads' = Drop(f)
            /\ last' = Step("OK", Reply("welcome", 0, 0))
    /\ UNCHANGED <<admin_store, booted, ADMIN_IDS, users, conversations, user_data, received>>

(* send_admin_menu, lines 104-114: the menu returned, start returns *)
start_return(f) ==
    /\ f \in Frames
    /\ f.handler = "start"
    /\ f.pc = "menu"
    /\ threads' = Drop(f)
    /\ last' = Step("OK", Reply("admin_menu", 0, 0))
    /\ UNCHANGED <<admin_store, booted, ADMIN_IDS, users, conversations, user_data, received>>

(* line 295: the entry point gives a 'broadcast' selection to              *)
(* button_callback, which blocks in query.answer() and the prompt for the  *)
(* text (lines 119-127).                                                   *)
button_callback(u, upd) ==
    /\ Ready
    /\ CanFork
    /\ HandlerFor(conversations, u, upd) = "button_callback"
    /\ threads' = Fork(Frame(u, "button_callback", "reply", upd))
    /\ last' = Step("", NoReply)
    /\ UNCHANGED <<admin_store, booted, ADMIN_IDS, users, conversations, user_data>>
    /\ received' = received + 1

(* button_callback, lines 128-130: the state it returns is stored *)
button_callback_return(f) ==
    /\ f \in Frames
    /\ f.handler = "button_callback"
    /\ f.pc = "reply"
    /\ IF f.update.data = "broadcast"
       THEN /\ conversations' = UpdateState(conversations, f.user, TYPING_TEXT)
            /\ last' = Step("OK", Reply("ask_text", 0, 0))
       ELSE /\ conversations' = UpdateState(conversations, f.user, END)
            /\ last' = Step("OK", NoReply)
    /\ threads' = Drop(f)
    /\ UNCHANGED <<admin_store, booted, ADMIN_IDS, users, user_data, received>>

(* line 297: a text message in state TYPING_TEXT is given to text_input *)
text_input(u, upd) ==
    /\ Ready
    /\ CanFork
    /\ HandlerFor(conversations, u, upd) = "text_input"
    /\ threads' = Fork(Frame(u, "text_input", "entered", upd))
    /\ last' = Step("", NoReply)
    /\ UNCHANGED <<admin_store, booted, ADMIN_IDS, users, conversations, user_data>>
    /\ received' = received + 1

(* text_input storing the text in every user's user_data *)
text_input_store_SharedDraft(f) ==
    /\ f \in Frames
    /\ f.handler = "text_input"
    /\ f.pc = "entered"
    /\ user_data' = [u \in UserIds |-> Put(user_data[u], "broadcast_text", f.update.data)]
    /\ threads' = Replace(f, [f EXCEPT !.pc = "reply"])
    /\ last' = Step("", NoReply)
    /\ UNCHANGED <<admin_store, booted, ADMIN_IDS, users, conversations, received>>

(* text_input, lines 134-143: the text is stored, then the thread blocks   *)
(* in the prompt.                                                          *)
text_input_store(f) ==
    /\ f \in Frames
    /\ f.handler = "text_input"
    /\ f.pc = "entered"
    /\ user_data' = [user_data EXCEPT ![f.user] = Put(@, "broadcast_text", f.update.data)]
    /\ threads' = Replace(f, [f EXCEPT !.pc = "reply"])
    /\ last' = Step("", NoReply)
    /\ UNCHANGED <<admin_store, booted, ADMIN_IDS, users, conversations, received>>

(* text_input, line 150: the prompt returned, WAITING_MEDIA is returned    *)
(* and stored                                                              *)
text_input_return(f) ==
    /\ f \in Frames
    /\ f.handler = "text_input"
    /\ f.pc = "reply"
    /\ conversations' = UpdateState(conversations, f.user, WAITING_MEDIA)
    /\ threads' = Drop(f)
    /\ last' = Step("OK", Reply("text_saved", 0, 0))
    /\ UNCHANGED <<admin_store, booted, ADMIN_IDS, users, user_data, received>>

(* line 298: a selection in state WAITING_MEDIA is given to media_choice,  *)
(* which blocks in query.answer() and, for add_photo and add_video, the    *)
(* prompt for the media (lines 155-168); send_now is BroadcastBegin.       *)
media_choice(u, upd) ==
    /\ Ready
    /\ CanFork
    /\ HandlerFor(conversations, u, upd) = "media_choice"
    /\ upd.data # "send_now"
    /\ threads' = Fork(Frame(u, "media_choice", "reply", upd))
    /\ last' = Step("", NoReply)
    /\ UNCHANGED <<admin_store, booted, ADMIN_IDS, users, conversations, user_data>>
    /\ received' = received + 1

(* media_choice, lines 162 and 170: the prompt returned, the kind is       *)
(* stored; the handler is about to return ("returning").                   *)
media_choice_store(f) ==
    /\ f \in Frames
    /\ f.handler = "media_choice"
    /\ f.pc = "reply"
    /\ f.update.data \in {"add_photo", "add_video"}
    /\ IF f.update.data = "add_photo"
       THEN /\ user_data' = [user_data EXCEPT ![f.user] = Put(@, "media_type", "photo")]
            /\ last' = Step("", Reply("ask_photo", 0, 0))
       ELSE /\ user_data' = [user_data EXCEPT ![f.user] = Put(@, "media_type", "video")]
            /\ last' = Step("", Reply("ask_video", 0, 0))
    /\ threads' = Replace(f, [f EXCEPT !.pc = "returning"])
    /\ UNCHANGED <<admin_store, booted, ADMIN_IDS, users, conversations, received>>

(* media_choice, lines 163, 171 and 178: the state returned is stored:     *)
(* BROADCAST once the kind has been stored, WAITING_MEDIA for a selection  *)
(* that is none of the three.                                              *)
media_choice_return(f) ==
    /\ f \in Frames
    /\ f.handler = "media_choice"
    /\ \/ /\ f.pc = "returning"
          /\ conversations' = UpdateState(conversations, f.user, BROADCAST)
       \/ /\ f.pc = "reply"
          /\ f.update.data \notin {"add_photo", "add_video"}
          /\ conversations' = UpdateState(conversations, f.user, WAITING_MEDIA)
    /\ last' = Step("OK", NoReply)
    /\ threads' = Drop(f)
    /\ UNCHANGED <<admin_store, booted, ADMIN_IDS, users, user_data, received>>

(* line 300: a photo or video message in state BROADCAST is given to       *)
(* receive_media                                                           *)
receive_media(u, upd) ==
    /\ Ready
    /\ CanFork
    /\ HandlerFor(conversations, u, upd) = "receive_media"
    /\ threads' = Fork(Frame(u, "receive_media", "entered", upd))
    /\ last' = Step("", NoReply)
    /\ UNCHANGED <<admin_store, booted, ADMIN_IDS, users, conversations, user_data>>
    /\ received' = received + 1

(* receive_media, lines 182-192: the reference is stored ("stored": the    *)
(* kind is not yet); a message that is neither photo nor video blocks in   *)
(* the format error instead.                                               *)
receive_media_store(f) ==
    /\ f \in Frames
    /\ f.handler = "receive_media"
    /\ f.pc = "entered"
    /\ IF f.update.kind \in {"photo", "video"}
       THEN /\ user_data' = [user_data EXCEPT ![f.user] = Put(@, "media", f.update.data)]
            /\ threads' = Replace(f, [f EXCEPT !.pc = "stored"])
       ELSE /\ user_data' = user_data
            /\ threads' = Replace(f, [f EXCEPT !.pc = "reply"])
    /\ last' = Step("", NoReply)
    /\ UNCHANGED <<admin_store, booted, ADMIN_IDS, users, conversations, received>>

(* receive_media, lines 195-202: the kind of the message is stored, then   *)
(* the thread blocks in the prompt.                                        *)
receive_media_kind(f) ==
    /\ f \in Frames
    /\ f.handler = "receive_media"
    /\ f.pc = "stored"
    /\ user_data' = [user_data EXCEPT ![f.user] = Put(@, "media_type", f.update.kind)]
    /\ threads' = Replace(f, [f EXCEPT !.pc = "reply"])
    /\ last' = Step("", NoReply)
    /\ UNCHANGED <<admin_store, booted, ADMIN_IDS, users, conversations, received>>

(* receive_media, lines 193 and 208: the state returned is stored *)
receive_media_return(f) ==
    /\ f \in Frames
    /\ f.handler = "receive_media"
    /\ f.pc = "reply"
    /\ IF f.update.kind \in {"photo", "video"}
       THEN /\ conversations' = UpdateState(conversations, f.user, WAITING_MEDIA)
            /\ last' = Step("OK", Reply("media_saved", 0, 0))
       ELSE /\ conversations' = UpdateState(conversations, f.user, BROADCAST)
            /\ last' = Step("OK", Reply("format_error", 0, 0))
    /\ threads' = Drop(f)
    /\ UNCHANGED <<admin_store, booted, ADMIN_IDS, users, user_data, received>>

(* line 304: /cancel within a conversation is given to cancel, which       *)
(* blocks in the acknowledgement (lines 262-265).                          *)
cancel(u, upd) ==
    /\ Ready
    /\ CanFork
    /\ HandlerFor(conversations, u, upd) = "cancel"
    /\ threads' = Fork(Frame(u, "cancel", "reply", upd))
    /\ last' = Step("", NoReply)
    /\ UNCHANGED <<admin_store, booted, ADMIN_IDS, users, conversations, user_data>>
    /\ received' = received + 1

(* cancel clearing the text and the kind but not the reference *)
cancel_clear_KeepMedia(f) ==
    /\ f \in Frames
    /\ f.handler = "cancel"
    /\ f.pc = "reply"
    /\ user_data' = [user_data EXCEPT ![f.user] =
                         IF Has(@, "media") THEN Put(EmptyDict, "media", @["media"])
                         ELSE EmptyDict]
    /\ threads' = Replace(f, [f EXCEPT !.pc = "returning"])
    /\ last' = Step("", Reply("cancelled", 0, 0))
    /\ UNCHANGED <<admin_store, booted, ADMIN_IDS, users, conversations, received>>

(* cancel, line 266: the acknowledgement returned, user_data is cleared *)
cancel_clear(f) ==
    /\ f \in Frames
    /\ f.handler = "cancel"
    /\ f.pc = "reply"
    /\ user_data' = [user_data EXCEPT ![f.user] = EmptyDict]
    /\ threads' = Replace(f, [f EXCEPT !.pc = "returning"])
    /\ last' = Step("", Reply("cancelled", 0, 0))
    /\ UNCHANGED <<admin_store, booted, ADMIN_IDS, users, conversations, received>>

(* cancel, line 267: END is returned and stored *)
cancel_return(f) ==
    /\ f \in Frames
    /\ f.handler = "cancel"
    /\ f.pc = "returning"
    /\ conversations' = UpdateState(conversations, f.user, END)
    /\ threads' = Drop(f)
    /\ last' = Step("OK", NoReply)
    /\ UNCHANGED <<admin_store, booted, ADMIN_IDS, users, user_data, received>>

(* An update no handler accepts: process_update drops it *)
Unhandled(u, upd) ==
    /\ Ready
    /\ HandlerFor(conversations, u, upd) = "none"
    /\ last' = Step("OK", NoReply)
    /\ UNCHANGED <<admin_store, booted, ADMIN_IDS, users, conversations, user_data, threads>>
    /\ received' = received + 1

(* send_now is given to media_choice in state WAITING_MEDIA, which blocks  *)
(* in query.answer() first (line 155), or to broadcast_message in state    *)
(* BROADCAST (line 301).                                                   *)
BroadcastBegin(u, upd) ==
    /\ Ready
    /\ CanFork
    /\ \/ /\ HandlerFor(conversations, u, upd) = "media_choice"
          /\ upd.data = "send_now"
          /\ threads' = Fork(Frame(u, "media_choice", "answer", upd))
       \/ /\ HandlerFor(conversations, u, upd) = "broadcast_message"
          /\ threads' = Fork(Frame(u, "broadcast_message", "entered", upd))
    /\ last' = Step("", NoReply)
    /\ UNCHANGED <<admin_store, booted, ADMIN_IDS, users, conversations, user_data>>
    /\ received' = received + 1

(* broadcast_message is entered (from media_choice, line 175, once         *)
(* query.answer() returned) and reads the text, lines 213-216.             *)
BroadcastEnter(f) ==
    /\ f \in Frames
    /\ f.handler \in {"media_choice", "broadcast_message"}
    /\ f.pc \in {"answer", "entered"}
    /\ threads' = Replace(f, ReadText(f, user_data[f.user]))
    /\ last' = Step("", NoReply)
    /\ UNCHANGED <<admin_store, booted, ADMIN_IDS, users, conversations, user_data, received>>

(* line 217 *)
BroadcastReadKind(f) ==
    /\ f \in Frames
    /\ f.pc = "read_type"
    /\ threads' = Replace(f, ReadKind(f, user_data[f.user]))
    /\ last' = Step("", NoReply)
    /\ UNCHANGED <<admin_store, booted, ADMIN_IDS, users, conversations, user_data, received>>

(* lines 218-228 *)
BroadcastReadMedia(f) ==
    /\ f \in Frames
    /\ f.pc = "read_media"
    /\ threads' = Replace(f, ReadMedia(f, user_data[f.user]))
    /\ last' = Step("", NoReply)
    /\ UNCHANGED <<admin_store, booted, ADMIN_IDS, users, conversations, user_data, received>>

(* The starting notice returned: the for statement of line 231 creates the *)
(* iterator over users.                                                    *)
BroadcastStart(f) ==
    /\ f \in Frames
    /\ f.pc = "notice"
    /\ threads' = Replace(f, StartLoop(f, users))
    /\ last' = Step("", Reply("started", 0, 0))
    /\ UNCHANGED <<admin_store, booted, ADMIN_IDS, users, conversations, user_data, received>>

(* line 231: the set iterator yields the next recipient, and the thread    *)
(* blocks in the send.                                                     *)
BroadcastNext(f, r) ==
    /\ f \in Frames
    /\ f.pc = "loop"
    /\ Cardinality(users) = f.it_used
    /\ r \in f.pending
    /\ threads' = Replace(f, TakeNext(f, r))
    /\ last' = Step("", NoReply)
    /\ UNCHANGED <<admin_store, booted, ADMIN_IDS, users, conversations, user_data, received>>

(* lines 233-242: the send returns or raises, and is counted *)
BroadcastAttempt(f, ok) ==
    /\ f \in Frames
    /\ f.pc = "send"
    /\ threads' = Replace(f, Deliver(f, f.current, ok))
    /\ last' = Step("", NoReply)
    /\ UNCHANGED <<admin_store, booted, ADMIN_IDS, users, conversations, user_data, received>>

(* The set iterator finds the set's size changed and raises RuntimeError   *)
(* at line 231, outside the try: the handler is left by the exception, the *)
(* dispatcher logs it, and neither the state nor user_data is touched.     *)
BroadcastRaise(f) ==
    /\ f \in Frames
    /\ f.pc = "loop"
    /\ Cardinality(users) # f.it_used
    /\ threads' = Drop(f)
    /\ last' = Step("OK", NoReply)
    /\ UNCHANGED <<admin_store, booted, ADMIN_IDS, users, conversations, user_data, received>>

(* The iterator is exhausted: the loop ends, lines 244-254 build the       *)
(* result and the thread blocks in sending it.                             *)
BroadcastLoopEnd(f) ==
    /\ f \in Frames
    /\ f.pc = "loop"
    /\ Cardinality(users) = f.it_used
    /\ f.pending = {}
    /\ threads' = Replace(f, [f EXCEPT !.pc = "report"])
    /\ last' = Step("", NoReply)
    /\ UNCHANGED <<admin_store, booted, ADMIN_IDS, users, conversations, user_data, received>>

(* lines 251-257: the result reached the operator, user_data is cleared;   *)
(* broadcast_message is about to return ("done").                          *)
BroadcastReport(f) ==
    /\ f \in Frames
    /\ f.pc = "report"
    /\ user_data' = [user_data EXCEPT ![f.user] = EmptyDict]
    /\ threads' = Replace(f, [f EXCEPT !.pc = "done"])
    /\ last' = Step("", Reply("result", f.successful, f.failed))
    /\ UNCHANGED <<admin_store, booted, ADMIN_IDS, users, conversations, received>>

(* lines 258 and 176: END is returned and stored *)
BroadcastReturn(f) ==
    /\ f \in Frames
    /\ f.pc = "done"
    /\ conversations' = UpdateState(conversations, f.user, END)
    /\ threads' = Drop(f)
    /\ last' = Step("OK", NoReply)
    /\ UNCHANGED <<admin_store, booted, ADMIN_IDS, users, user_data, received>>

(* The call of the Telegram API a handler is blocked in raises (a network  *)
(* error, a timeout, a query too old): the handler is left there, nothing  *)
(* it would have done after the call happens, and the dispatcher logs the  *)
(* exception.  The sends of the loop are inside the try and do not end it. *)
HandlerRaise(f) ==
    /\ f \in Frames
    /\ f.pc \in {"welcome", "menu", "reply", "answer", "notice", "report"}
    /\ threads' = Drop(f)
    /\ last' = Step("OK", NoReply)
    /\ UNCHANGED <<admin_store, booted, ADMIN_IDS, users, conversations, user_data, received>>

Next ==
    \/ LoadAdmins
    \/ WebhookBadRequest
    \/ \E u \in UserIds, upd \in Updates : Start(u, upd)
    \/ \E u \in UserIds, upd \in Updates : button_callback(u, upd)
    \/ \E u \in UserIds, upd \in Updates : text_input(u, upd)
    \/ \E u \in UserIds, upd \in Updates : media_choice(u, upd)
    \/ \E u \in UserIds, upd \in Updates : receive_media(u, upd)
    \/ \E u \in UserIds, upd \in Updates : cancel(u, upd)
    \/ \E u \in UserIds, upd \in Updates : Unhandled(u, upd)
    \/ \E u \in UserIds, upd \in Updates : BroadcastBegin(u, upd)
    \/ \E f \in Frames : start_welcome(f)
    \/ \E f \in Frames : start_return(f)
    \/ \E f \in Frames : button_callback_return(f)
    \/ \E f \in Frames : text_input_store(f)
    \/ \E f \in Frames : text_input_return(f)
    \/ \E f \in Frames : media_choice_store(f)
    \/ \E f \in Frames : media_choice_return(f)
    \/ \E f \in Frames : receive_media_store(f)
    \/ \E f \in Frames : receive_media_kind(f)
    \/ \E f \in Frames : receive_media_return(f)
    \/ \E f \in Frames : cancel_clear(f)
    \/ \E f \in Frames : cancel_return(f)
    \/ \E f \in Frames : HandlerRaise(f)
    \/ \E f \in Frames : BroadcastEnter(f)
    \/ \E f \in Frames : BroadcastReadKind(f)
    \/ \E f \in Frames : BroadcastReadMedia(f)
    \/ \E f \in Frames : BroadcastStart(f)
    \/ \E f \in Frames, r \in UserIds : BroadcastNext(f, r)
    \/ \E f \in Frames, ok \in BOOLEAN : BroadcastAttempt(f, ok)
    \/ \E f \in Frames : BroadcastRaise(f)
    \/ \E f \in Frames : BroadcastLoopEnd(f)
    \/ \E f \in Frames : BroadcastReport(f)
    \/ \E f \in Frames : BroadcastReturn(f)

Spec == Init /\ [][Next]_vars

(* The steps of the handler calls in progress are taken by their request   *)
(* threads                                                                 *)
ThreadStep ==
    \E f \in Frames :
        \/ start_welcome(f)
        \/ start_return(f)
        \/ button_callback_return(f)
        \/ text_input_store(f)
        \/ text_input_return(f)
        \/ media_choice_store(f)
        \/ media_choice_return(f)
        \/ receive_media_store(f)
        \/ receive_media_kind(f)
        \/ receive_media_return(f)
        \/ cancel_clear(f)
        \/ cancel_return(f)
        \/ BroadcastEnter(f)
        \/ BroadcastReadKind(f)
        \/ BroadcastReadMedia(f)
        \/ BroadcastStart(f)
        \/ \E r \in UserIds : BroadcastNext(f, r)
        \/ \E ok \in BOOLEAN : BroadcastAttempt(f, ok)
        \/ BroadcastRaise(f)
        \/ BroadcastLoopEnd(f)
        \/ BroadcastReport(f)
        \/ BroadcastReturn(f)

(* Every thread is scheduled, and a call of the Telegram API it is blocked *)
(* in returns                                                              *)
FairSpec == Init /\ [][Next]_vars /\ WF_vars(ThreadStep)

-----------------------------------------------------------------------------
(* Properties *)

Idle(u) == u \notin DOMAIN conversations

SendIndexes(f) == {i \in 1..Len(f.trace) : f.trace[i].ev = "send"}

(* The recipients whose send a frame has completed so far *)
Attempted(f) == {f.trace[i].to : i \in SendIndexes(f)}

(* The recipient whose send a frame is blocked in *)
InSend(f) == IF f.pc = "send" THEN {f.current} ELSE {}

AttemptsTo(f, r) == Cardinality({i \in SendIndexes(f) : f.trace[i].to = r})

Outcomes(f, ok) == Cardinality({i \in SendIndexes(f) : f.trace[i].ok = ok})

(* The frame is in the loop of broadcast_message or past it *)
Running(f) == f.pc \in {"loop", "send", "report", "done"}

(* The loop of the frame has ended *)
Reporting(f) == f.pc \in {"report", "done"}

(* The users whose handler calls a step starts, advances or ends *)
Actors ==
    {f.user : f \in {g \in BagToSet(threads) \cup BagToSet(threads') :
                        CopiesIn(g, threads) # CopiesIn(g, threads')}}

(* The frame is in broadcast_message and has not cleared the draft *)
Broadcasting(f) == f.pc \in {"read_type", "read_media", "notice", "loop", "send", "report"}

EntryUpdate == [kind |-> "callback", data |-> "broadcast"]

CancelUpdate == [kind |-> "command", data |-> "cancel"]

StartUpdate == [kind |-> "command", data |-> "start"]

(* C1: the broadcast entry action of a user who is not in ADMIN_IDS        *)
(* creates no session and leaves the user's conversation state Idle.       *)
C1_EntryGated ==
    [][\A f \in Frames :
          (/\ f.update = EntryUpdate
           /\ ~InList(f.user, ADMIN_IDS)
           /\ button_callback_return(f))
          => (conversations' = conversations /\ f.user \notin DOMAIN conversations')]_vars

(* C2: when broadcast_message reaches its result report, successful +      *)
(* failed equals the size of the registry at the instant the loop began.   *)
C2_TallySumsToSnapshot ==
    \A f \in Frames :
        Reporting(f) => f.successful + f.failed = Cardinality(f.snapshot)

C2_Witness ==
    \E f \in Frames :
        /\ f.pc = "report"
        /\ f.snapshot = UserIds
        /\ f.failed = 1
        /\ f.successful = 1

(* C3: in a broadcast no recipient is attempted twice, none is dropped     *)
(* after a failure, successful and failed count exactly the sends that     *)
(* succeeded and raised, and at the report every user of the registry has  *)
(* had exactly one attempt.                                                *)
C3_OneAttemptEach ==
    \A f \in Frames :
        Running(f) =>
            /\ \A r \in UserIds : AttemptsTo(f, r) <= 1
            /\ Attempted(f) \cup InSend(f) \cup f.pending = f.snapshot
            /\ Attempted(f) \cap (InSend(f) \cup f.pending) = {}
            /\ InSend(f) \cap f.pending = {}
            /\ f.successful = Outcomes(f, TRUE)
            /\ f.failed = Outcomes(f, FALSE)
            /\ Reporting(f) => \A r \in f.snapshot : AttemptsTo(f, r) = 1

C3_Witness ==
    \E f \in Frames :
        /\ f.pc = "report"
        /\ f.snapshot = UserIds
        /\ \E i, j \in SendIndexes(f) :
               /\ i < j
               /\ ~f.trace[i].ok
               /\ f.trace[j].ok
        /\ f.successful = 1
        /\ f.failed = 1

(* C4: a payload of another kind than the one chosen, received in state    *)
(* BROADCAST, leaves the state BROADCAST and the draft as it was.          *)
C4_WrongKindRejected ==
    [][/\ \A f \in Frames :
              (/\ f.update.kind # Get(user_data[f.user], "media_type", None)
               /\ receive_media_store(f))
              => user_data' = user_data
       /\ \A u \in UserIds, upd \in Updates :
              (/\ StateOf(conversations, u) = BROADCAST
               /\ upd.kind \in {"text", "document"}
               /\ Unhandled(u, upd))
              => (conversations' = conversations /\ user_data' = user_data)]_vars

(* C5: /cancel received in a non-idle state ends the conversation and      *)
(* empties the draft; /cancel in Idle changes neither the state nor the    *)
(* draft.                                                                  *)
C5_Cancel ==
    [][/\ \A f \in Frames :
              (f.handler = "cancel" /\ (cancel_return(f) \/ HandlerRaise(f)))
              => (f.user \notin DOMAIN conversations' /\ user_data'[f.user] = EmptyDict)
       /\ \A u \in UserIds :
              (Idle(u) /\ Unhandled(u, CancelUpdate))
              => (conversations' = conversations /\ user_data' = user_data)]_vars

(* C6: every Register (users.add in start) adds exactly its id, also when  *)
(* the id is there already, and no other step changes the registry: the    *)
(* registry is the set of the ids registered so far.                       *)
C6_RegistryGrowsByRegister ==
    [][/\ \A u \in UserIds : Start(u, StartUpdate) => users' = users \cup {u}
       /\ users' # users
              => \E u \in UserIds : Start(u, StartUpdate) /\ users' = users \cup {u}
       /\ users \subseteq users']_vars

C6_Witness ==
    /\ users = UserIds
    /\ \E g \in Frames : g.handler = "start" /\ g.pc = "welcome"
    /\ \E f \in Frames : f.pc = "send" /\ f.snapshot = UserIds /\ Attempted(f) # {}

(* C7: a broadcast delivers to the registry as it was when the loop began: *)
(* when the loop is left, the recipients attempted are that membership and *)
(* the tally to report sums to its size, whatever registrations            *)
(* interleaved.                                                            *)
C7_PointInTimeView ==
    [][\A f \in Frames :
          (BroadcastRaise(f) \/ BroadcastLoopEnd(f))
          => (/\ Attempted(f) = f.snapshot
              /\ \E g \in BagToSet(threads') :
                     /\ g.pc = "report"
                     /\ g.successful + g.failed = Cardinality(f.snapshot))]_vars

(* C8: a broadcast that has started runs to completion: it goes on until   *)
(* the tally has been reported and the draft cleared, and is then about to *)
(* return and end the session.                                             *)
C8_RunsToCompletion ==
    \A u \in UserIds :
        (\E f \in Frames : f.user = u /\ f.pc = "loop")
        ~> (/\ \E f \in Frames : f.user = u /\ f.pc = "done"
            /\ last.reply.msg = "result"
            /\ user_data[u] = EmptyDict)

(* C9: a step taken for one operator leaves the conversation state and the *)
(* draft of every other operator as they were: the state or the draft of   *)
(* an operator changes only in steps of that operator's handler calls.     *)
C9_SessionsIsolated ==
    [][\A b \in UserIds :
          (\/ StateOf(conversations', b) # StateOf(conversations, b)
           \/ user_data'[b] # user_data[b])
          => Actors = {b}]_vars

C9_Witness ==
    \E a, b \in UserIds :
        /\ a # b
        /\ \E f \in Frames : f.user = a /\ f.handler = "text_input" /\ f.pc = "reply"
        /\ StateOf(conversations, b) = BROADCAST
        /\ Has(user_data[b], "broadcast_text")
        /\ Get(user_data[b], "broadcast_text", "") # Get(user_data[a], "broadcast_text", "")

HasKind(d) == Get(d, "media_type", None) \in {"photo", "video"}

(* C10 as claimed: the media reference is set exactly when the media kind  *)
(* is photo or video.                                                      *)
C10_RefIffKind ==
    \A u \in UserIds : Has(user_data[u], "media") <=> HasKind(user_data[u])

(* C10 amended: a media reference is stored only with a kind of photo or   *)
(* video: whenever the reference is set the kind is set, or the call of    *)
(* receive_media that stored the reference is about to store the kind.     *)
C10_RefImpliesKind ==
    \A u \in UserIds :
        Has(user_data[u], "media")
        => \/ HasKind(user_data[u])
           \/ \E f \in Frames :
                  f.user = u /\ f.handler = "receive_media" /\ f.pc = "stored"

C10_Witness ==
    \E u \in UserIds :
        /\ Has(user_data[u], "media")
        /\ Get(user_data[u], "media_type", None) = "photo"
        /\ StateOf(conversations, u) = WAITING_MEDIA

(* C11: a session that is Idle has an empty draft: the send-now and cancel *)
(* transitions back to Idle leave no text, kind or reference behind.       *)
C11_IdleDraftEmpty ==
    \A u \in UserIds : Idle(u) => user_data[u] = EmptyDict

(* C12 as claimed: once any update of a user has been processed (command,  *)
(* text, button selection, media, cancel) the user is in the registry.     *)
C12_EveryEventRegisters ==
    [][/\ \A u \in UserIds, upd \in Updates : Unhandled(u, upd) => u \in users'
       /\ \A f \in Frames : threads' = Drop(f) => f.user \in users']_vars

(* C12 amended: every /start registers its sender, admin or not and in any *)
(* conversation state; a registered user stays registered and is in the    *)
(* set every broadcast begun afterwards iterates.                          *)
C12_StartRegisters ==
    [][/\ \A u \in UserIds : Start(u, StartUpdate) => u \in users'
       /\ users \subseteq users'
       /\ \A f \in Frames :
              BroadcastStart(f)
              => \E g \in BagToSet(threads') : g.pc = "loop" /\ users \subseteq g.pending]_vars

C12_Witness ==
    \E f \in Frames :
        /\ f.handler = "start"
        /\ f.pc = "welcome"
        /\ StateOf(conversations, f.user) = TYPING_TEXT
        /\ ADMIN_IDS # <<>>
        /\ ~InList(f.user, ADMIN_IDS)
        /\ f.user \in users

(* C13: load_admins does not fail whatever the condition of the store: an  *)
(* absent, unreadable or corrupt store is reset to the empty list and the  *)
(* admin list is empty, a valid store is returned as it is.                *)
C13_LoadNeverFails ==
    /\ booted # "crashed"
    /\ booted = "up" =>
           \/ admin_store = "empty_list" /\ ADMIN_IDS = <<>>
           \/ admin_store = "valid" /\ ADMIN_IDS = StoredAdmins

(* C14: every POST the webhook has answered was answered with OK.          *)
C14_AlwaysOK ==
    last.http # "" => last.http = "OK"

(* C15: a payload of the wrong kind received in state BROADCAST (a text or *)
(* a document) is answered with the format-error prompt and the session    *)
(* stays in BROADCAST.                                                     *)
C15_FormatErrorPrompt ==
    [][\A u \in UserIds, upd \in Updates :
          (/\ StateOf(conversations, u) = BROADCAST
           /\ upd.kind \in {"text", "document"}
           /\ Unhandled(u, upd))
          => (/\ last'.reply.msg = "format_error"
              /\ StateOf(conversations', u) = BROADCAST)]_vars

RefMatchesKind(media_type, media) ==
    /\ media_type = "photo" => media \in PhotoIds
    /\ media_type = "video" => media \in VideoIds

(* C16: a broadcast that runs with kind photo or video has a stored media  *)
(* reference of that kind: send_now starts no broadcast from state         *)
(* BROADCAST while the reference is unset.                                 *)
C16_SendOnlyAfterMediaStored ==
    \A f \in Frames : Running(f) => RefMatchesKind(f.media_type, f.media)

(* The delivery call the draft d prescribes for recipient r *)
CallFor(d, r, ok) ==
    LET kind == Get(d, "media_type", None)
        text == Get(d, "broadcast_text", "")
    IN  CASE kind = "photo" ->
                 Event("send", r, "send_photo", Get(d, "media", None), text, ok)
          [] kind = "video" ->
                 Event("send", r, "send_video", Get(d, "media", None), text, ok)
          [] OTHER -> Event("send", r, "send_message", "", text, ok)

(* C17: every delivery of a broadcast is the call that the kind of the     *)
(* draft the broadcast was invoked with prescribes: plain send of the text *)
(* without a kind, send_photo or send_video with the stored reference and  *)
(* the text as caption otherwise, the same for every recipient.            *)
C17_PrimitiveByKind ==
    \A f \in Frames :
        \A i \in SendIndexes(f) :
            f.trace[i] = CallFor(f.draft, f.trace[i].to, f.trace[i].ok)

(* C18: in a broadcast the starting notice precedes the first delivery,    *)
(* the result with the tally follows the last delivery, and the draft is   *)
(* cleared only once the result has been sent.                             *)
C18_BroadcastOrder ==
    [][\A f \in Frames :
          /\ Running(f) =>
                 /\ Len(f.trace) >= 1
                 /\ f.trace[1] = StartedEvent
                 /\ \A i \in 2..Len(f.trace) : f.trace[i].ev = "send"
          /\ BroadcastReport(f) =>
                 /\ f.pending = {}
                 /\ Attempted(f) = f.snapshot
                 /\ last'.reply = Reply("result", f.successful, f.failed)
          /\ (/\ Broadcasting(f)
              /\ user_data[f.user] # EmptyDict
              /\ user_data'[f.user] = EmptyDict)
                 => BroadcastReport(f)]_vars

(* The updates for which a conversation state has no transition *)
NoTransition(state, upd) ==
    \/ state = TYPING_TEXT /\ upd.kind \in {"photo", "video", "document", "callback"}
    \/ state = WAITING_MEDIA /\ upd.kind \in {"text", "photo", "video", "document"}
    \/ /\ state = WAITING_MEDIA
       /\ upd.kind = "callback"
       /\ upd.data \notin {"add_photo", "add_video", "send_now"}
    \/ state = BROADCAST /\ upd.kind = "callback" /\ upd.data # "send_now"
    \/ state \in {TYPING_TEXT, WAITING_MEDIA, BROADCAST} /\ upd = EntryUpdate

(* C19: an update that has no transition in the session's current state    *)
(* changes neither the conversation state nor the draft, and in particular *)
(* does not reset the session to Idle.                                     *)
C19_NoTransitionNoChange ==
    [][/\ \A u \in UserIds, upd \in Updates :
              (/\ NoTransition(StateOf(conversations, u), upd)
               /\ \/ Unhandled(u, upd)
                  \/ media_choice(u, upd))
              => (conversations' = conversations /\ user_data' = user_data)
       /\ \A f \in Frames :
              (/\ f.update.data \notin {"add_photo", "add_video", "send_now"}
               /\ media_choice_return(f) \/ (f.handler = "media_choice" /\ HandlerRaise(f)))
              => (conversations' = conversations /\ user_data' = user_data)]_vars

(* C20: the text a broadcast delivers is the text message that moved the   *)
(* session from TYPING_TEXT to WAITING_MEDIA: when text_input returns the  *)
(* session is in WAITING_MEDIA with exactly its text stored, no step       *)
(* changes a stored text other than by clearing the draft, and the text is *)
(* set when broadcast_message reads it.                                    *)
C20_TextPreserved ==
    [][/\ \A f \in Frames :
              text_input_return(f)
              => (/\ StateOf(conversations', f.user) = WAITING_MEDIA
                  /\ Has(user_data'[f.user], "broadcast_text")
                  /\ user_data'[f.user]["broadcast_text"] = f.update.data)
       /\ \A u \in UserIds :
              (Has(user_data[u], "broadcast_text") /\ user_data'[u] # EmptyDict)
              => (/\ Has(user_data'[u], "broadcast_text")
                  /\ user_data'[u]["broadcast_text"] = user_data[u]["broadcast_text"])
       /\ \A f \in Frames :
              BroadcastEnter(f) => Has(user_data[f.user], "broadcast_text")]_vars

====
